---- MODULE Spec2Model ----
(***************************************************************************)
(* Model of posts/transform/transform.py: one linear pipeline of dataframe *)
(* operations over the NGSIM I-80 trajectory table.                        *)
(*                                                                         *)
(* Representation.  A table is a sequence of rows; a row is a function     *)
(* from column names to cell values.  `schema` maps every column of the    *)
(* table to its dtype.  Only the columns whose values the checked          *)
(* properties read carry cell values (DataCols); the remaining columns are *)
(* tracked in `schema` only.  Float values are fixed-point numbers in      *)
(* hundredths (Scale).  Identifier cells are integers until the            *)
(* categorical cast turns them into strings.                               *)
(***************************************************************************)
EXTENDS Integers, Sequences, FiniteSets, TLC

VARIABLES pc, data_py, schema, loaded, error, data_py_veh, plot

vars == <<pc, data_py, schema, loaded, error, data_py_veh, plot>>

----------------------------------------------------------------------------
(* Bounds and input sets *)

\* largest number of rows of an enumerated input table
MaxRows == 2

\* fixed-point scale of float cells: two decimals
Scale == 100

\* a missing value: pandas NaN / polars null in a numeric or identifier column
Null == -999999

\* a missing value in a string or categorical column
NullStr == "null"

VehicleIds == {1, 2}

\* 0 is the dataset's "no preceding vehicle"
PrecedingIds == {0, 1, 2}

FrameIds == {1, 2, 4}

\* kinematic samples (feet, feet/s, feet/s^2 in hundredths) with the class
Profiles ==
  { [v_class |-> 1, v_vel |-> 1003, v_acc |-> -251, local_x |-> 1655],
    [v_class |-> 2, v_vel |-> 3500, v_acc |-> 77, local_x |-> 4012] }

----------------------------------------------------------------------------
(* Columns *)

\* the columns of the input file after clean_names
InputCols ==
  { "global_time", "vehicle_id", "frame_id", "preceding", "local_x", "local_y",
    "v_length", "v_width", "v_class", "v_vel", "v_acc", "lane_id",
    "space_headway", "total_frames", "global_x", "global_y", "following",
    "o_zone", "d_zone", "int_id", "section_id", "direction", "movement" }

\* further columns of the NGSIM file that the script never names
ExtraCols == { "time_headway", "location" }

\* the columns whose cell values are modelled
DataCols ==
  { "vehicle_id", "frame_id", "preceding", "v_class", "v_vel", "v_acc", "local_x" }

IntCols ==
  { "global_time", "vehicle_id", "frame_id", "preceding", "v_class", "lane_id",
    "total_frames", "following", "o_zone", "d_zone", "int_id", "section_id",
    "direction", "movement" }

InputDtype(c) == IF c \in IntCols THEN "int" ELSE IF c = "location" THEN "str" ELSE "float"

Cols == DOMAIN schema

----------------------------------------------------------------------------
(* Generic helpers on rows and tables *)

Restrict(row, S) == [c \in (DOMAIN row) \cap S |-> row[c]]

RECURSIVE Flatten(_)
Flatten(ss) == IF ss = <<>> THEN <<>> ELSE Head(ss) \o Flatten(Tail(ss))

\* round a / b (b > 0) to the nearest integer, halves away from zero
RoundDiv(a, b) ==
  IF a >= 0 THEN (2 * a + b) \div (2 * b) ELSE -((2 * (-a) + b) \div (2 * b))

----------------------------------------------------------------------------
(* Lines 35-43: sort and per-vehicle time index *)

\* the sort key of sort_values(by = ["vehicle_id", "frame_id"])
RowLess(a, b) ==
  \/ a["vehicle_id"] < b["vehicle_id"]
  \/ a["vehicle_id"] = b["vehicle_id"] /\ a["frame_id"] < b["frame_id"]

RECURSIVE InsertSorted(_, _)
InsertSorted(x, s) ==
  IF s = <<>> THEN <<x>>
  ELSE IF RowLess(x, Head(s)) THEN <<x>> \o s
  ELSE <<Head(s)>> \o InsertSorted(x, Tail(s))

\* data_py.sort_values(by = ["vehicle_id", "frame_id"]): a stable sort
RECURSIVE sort_values(_)
sort_values(t) ==
  IF t = <<>> THEN <<>>
  ELSE InsertSorted(t[Len(t)], sort_values(SubSeq(t, 1, Len(t) - 1)))

WithCell(row, c, v) == [k \in (DOMAIN row) \cup {c} |-> IF k = c THEN v ELSE row[k]]

\* the index counted from one
calculate_time_elapsed_from_one(group_df) ==
  [i \in 1..Len(group_df) |-> WithCell(group_df[i], "time", (i * Scale) \div 10)]

\* group_df['time'] = [i / 10.0 for i in range(num_rows)]
calculate_time_elapsed(group_df) ==
  [i \in 1..Len(group_df) |-> WithCell(group_df[i], "time", ((i - 1) * Scale) \div 10)]

GroupOf(t, v) == SelectSeq(t, LAMBDA r : r["vehicle_id"] = v)

PosInGroup(t, k) == Cardinality({ j \in 1..k : t[j]["vehicle_id"] = t[k]["vehicle_id"] })

\* groupby('vehicle_id', group_keys=False).apply(...): every group is mapped
\* and the rows come back in the table's row order
groupby_apply(t) ==
  [k \in 1..Len(t) |->
     calculate_time_elapsed(GroupOf(t, t[k]["vehicle_id"]))[PosInGroup(t, k)]]

----------------------------------------------------------------------------
(* Lines 50-57: the self-join *)

\* the columns of the right-hand table of the merge
RightCols ==
  { "frame_id", "vehicle_id", "local_x", "local_y", "v_length", "v_width",
    "v_class", "v_vel", "v_acc" }

\* another right suffix
SuffixedShort(c) == c \o "_prec"

Suffixed(c) == c \o "_preceding"

\* suffixes = ['', '_preceding']: a right column that is not the shared key
\* frame_id and whose name the left table has gets the right suffix
MergeName(c, leftCols) == IF c \in leftCols THEN Suffixed(c) ELSE c

JoinedCols == RightCols \ {"frame_id"}

\* a join on the vehicle alone
MatchesAnyFrame(right, L) ==
  SelectSeq(right, LAMBDA M : M["vehicle_id"] = L["preceding"])

Matches(right, L) ==
  SelectSeq(right, LAMBDA M : M["frame_id"] = L["frame_id"] /\ M["vehicle_id"] = L["preceding"])

\* one output row: the left row and the right row's cells under their merged names
JoinRow(L, M, leftCols) ==
  LET new == { MergeName(c, leftCols) : c \in (DOMAIN M) \ {"frame_id"} }
      src(n) == CHOOSE c \in (DOMAIN M) \ {"frame_id"} : MergeName(c, leftCols) = n
  IN [n \in (DOMAIN L) \cup new |-> IF n \in DOMAIN L THEN L[n] ELSE M[src(n)]]

NullRow(cols) == [c \in cols |-> Null]

\* how = 'inner': a left row without a match is lost
MergeRowsInner(L, right, leftCols) ==
  LET ms == SelectSeq(right, LAMBDA M : M["frame_id"] = L["frame_id"]
                                        /\ M["vehicle_id"] = L["preceding"])
  IN [i \in 1..Len(ms) |-> JoinRow(L, ms[i], leftCols)]

\* how = 'left': every left row is kept; one output row per matching right
\* row, in the right table's order; without a match the right cells are missing
MergeRows(L, right, leftCols) ==
  LET ms == Matches(right, L)
  IN IF ms = <<>>
     THEN <<JoinRow(L, NullRow(RightCols \cap DataCols), leftCols)>>
     ELSE [i \in 1..Len(ms) |-> JoinRow(L, ms[i], leftCols)]

merge(t, leftCols) ==
  LET right == [i \in 1..Len(t) |-> Restrict(t[i], RightCols)]
  IN Flatten([i \in 1..Len(t) |-> MergeRows(t[i], right, leftCols)])

AnyUnmatched(t) ==
  \E i \in 1..Len(t) : Matches(t, t[i]) = <<>>

\* an integer column that receives missing values becomes float64
Upcast(dtype, missing) == IF missing /\ dtype = "int" THEN "float" ELSE dtype

merge_schema(sch, t) ==
  LET leftCols == DOMAIN sch
      new == { MergeName(c, leftCols) : c \in JoinedCols }
      src(n) == CHOOSE c \in JoinedCols : MergeName(c, leftCols) = n
  IN [n \in leftCols \cup new |->
        IF n \in leftCols THEN sch[n] ELSE Upcast(sch[src(n)], AnyUnmatched(t))]

DropCols(t, S) == [i \in 1..Len(t) |-> Restrict(t[i], (DOMAIN t[i]) \ S)]

DropSchema(sch, S) == [c \in (DOMAIN sch) \ S |-> sch[c]]

----------------------------------------------------------------------------
(* Lines 65-97: rename, prune, unit conversion, categorical cast *)

RenameMap ==
  [ local_y_preceding |-> "preceding_local_y",
    v_length_preceding |-> "preceding_v_length",
    v_width_preceding |-> "preceding_v_width",
    v_class_preceding |-> "preceding_v_class",
    v_vel_preceding |-> "preceding_v_vel",
    v_acc_preceding |-> "preceding_v_acc" ]

NewName(c) == IF c \in DOMAIN RenameMap THEN RenameMap[c] ELSE c

RenamedCols(cols) == { NewName(c) : c \in cols }

rename_row(row) ==
  [n \in RenamedCols(DOMAIN row) |-> row[CHOOSE c \in DOMAIN row : NewName(c) = n]]

rename(t) == [i \in 1..Len(t) |-> rename_row(t[i])]

rename_schema(sch) == rename_row(sch)

\* the prune list without its last column
DropListShort ==
  { "total_frames", "global_x", "global_y", "following", "o_zone", "d_zone",
    "int_id", "section_id", "direction" }

\* the prune list with the unrenamed joined column
DropListWithLocalX ==
  { "total_frames", "global_x", "global_y", "following", "o_zone", "d_zone",
    "int_id", "section_id", "direction", "movement", "local_x_preceding" }

DropList ==
  { "total_frames", "global_x", "global_y", "following", "o_zone", "d_zone",
    "int_id", "section_id", "direction", "movement" }

cols_to_convert_to_metric ==
  { "local_x", "local_y", "v_length", "v_width", "v_vel", "v_acc",
    "space_headway", "preceding_local_y", "preceding_v_length",
    "preceding_v_width", "preceding_v_vel", "preceding_v_acc" }

\* .3048 in ten-thousandths
FeetToMetres == 3048

TenThousand == 10000

\* (x * .3048).round(2) on a fixed-point cell; a missing value stays missing
ToMetricCell(x) == IF x = Null THEN Null ELSE RoundDiv(x * FeetToMetres, TenThousand)

\* the conversion applied a second time
to_metric_twice(t) ==
  [i \in 1..Len(t) |->
     [c \in DOMAIN t[i] |->
        IF c \in cols_to_convert_to_metric
        THEN ToMetricCell(ToMetricCell(t[i][c])) ELSE t[i][c]]]

to_metric(t) ==
  [i \in 1..Len(t) |->
     [c \in DOMAIN t[i] |->
        IF c \in cols_to_convert_to_metric THEN ToMetricCell(t[i][c]) ELSE t[i][c]]]

to_metric_schema(sch) ==
  [c \in DOMAIN sch |-> IF c \in cols_to_convert_to_metric THEN "float" ELSE sch[c]]

cols_to_convert_to_categorical ==
  { "vehicle_id", "v_class", "lane_id", "preceding", "preceding_v_class" }

\* cast(pl.String): an Int64 k reads "k", a Float64 holding the whole number
\* k reads "k.0", a missing value stays missing
CastString(dtype, x) ==
  IF x = Null THEN NullStr
  ELSE IF dtype = "int" THEN ToString(x)
  ELSE IF dtype = "float" THEN ToString(x) \o ".0"
  ELSE x

to_categorical(t, sch) ==
  [i \in 1..Len(t) |->
     [c \in DOMAIN t[i] |->
        IF c \in cols_to_convert_to_categorical THEN CastString(sch[c], t[i][c]) ELSE t[i][c]]]

to_categorical_schema(sch) ==
  [c \in DOMAIN sch |-> IF c \in cols_to_convert_to_categorical THEN "cat" ELSE sch[c]]

----------------------------------------------------------------------------
(* Lines 108-116: the plot *)

\* pl.col('vehicle_id') == "2"
filter(t) == SelectSeq(t, LAMBDA r : r["vehicle_id"] = "2")

\* the aesthetics of the two geom_path layers
PlotLayers ==
  { [x |-> "time", y |-> "v_vel", color |-> "Subject vehicle"],
    [x |-> "time", y |-> " preceding_vel", color |-> "Preceding vehicle"] }

----------------------------------------------------------------------------
(* Inputs *)

RowDomain ==
  { [vehicle_id |-> v, frame_id |-> f, preceding |-> p, v_class |-> k.v_class,
     v_vel |-> k.v_vel, v_acc |-> k.v_acc, local_x |-> k.local_x] :
       v \in VehicleIds, f \in FrameIds, p \in PrecedingIds, k \in Profiles }

Tables == UNION { [1..n -> RowDomain] : n \in 0..MaxRows }

\* section 8 of the specification: vehicles 1 and 2 at three frames, vehicle 2
\* following vehicle 1
ScenarioRow(v, f) ==
  [vehicle_id |-> v, frame_id |-> f, preceding |-> IF v = 2 THEN 1 ELSE 0,
   v_class |-> v, v_vel |-> 1000 * v + 3 * f, v_acc |-> 77 - 100 * f,
   local_x |-> 1655 + v]

Scenario ==
  << ScenarioRow(2, 2), ScenarioRow(1, 1), ScenarioRow(2, 4), ScenarioRow(1, 4),
     ScenarioRow(1, 2), ScenarioRow(2, 1) >>

SchemaOf(cols) == [c \in cols |-> InputDtype(c)]

\* the column sets of the scenario runs: the file's columns, with or without
\* the unnamed ones, and the same with one expected column absent
ColumnSets ==
  { InputCols \cup E : E \in SUBSET ExtraCols } \cup { InputCols \ {c} : c \in InputCols }

NoError == [step |-> "", kind |-> ""]

Init ==
  /\ pc = "clean_names"
  /\ \/ data_py \in Tables /\ schema = SchemaOf(InputCols)
     \/ \E cs \in ColumnSets :
          /\ schema = SchemaOf(cs)
          /\ data_py = [i \in 1..Len(Scenario) |-> Restrict(Scenario[i], cs)]
  /\ loaded = [rows |-> data_py, columns |-> Cols]
  /\ error = NoError
  /\ data_py_veh = <<>>
  /\ plot = {}

----------------------------------------------------------------------------
(* Steps.  A step whose columns are missing raises and the script stops. *)

Fail(step, kind) ==
  /\ pc' = "failed"
  /\ error' = [step |-> step, kind |-> kind]
  /\ UNCHANGED <<data_py, schema, loaded, data_py_veh, plot>>

Done(step) ==
  /\ pc' = step
  /\ UNCHANGED <<loaded, error>>

\* lines 30-32
ActualTime ==
  /\ pc = "clean_names"
  /\ IF "global_time" \in Cols
     THEN /\ schema' = [c \in Cols \cup {"actual_time"} |->
                          IF c = "actual_time" THEN "datetime" ELSE schema[c]]
          /\ Done("actual_time")
          /\ UNCHANGED <<data_py, data_py_veh, plot>>
     ELSE Fail("actual_time", "KeyError")

\* line 35
SortValues ==
  /\ pc = "actual_time"
  /\ IF {"vehicle_id", "frame_id"} \subseteq Cols
     THEN /\ data_py' = sort_values(data_py)
          /\ Done("sort_values")
          /\ UNCHANGED <<schema, data_py_veh, plot>>
     ELSE Fail("sort_values", "KeyError")

\* line 43
GroupbyApply ==
  /\ pc = "sort_values"
  /\ data_py' = groupby_apply(data_py)
  /\ schema' = [c \in Cols \cup {"time"} |-> IF c = "time" THEN "float" ELSE schema[c]]
  /\ Done("groupby_apply")
  /\ UNCHANGED <<data_py_veh, plot>>

\* lines 50-56
Merge ==
  /\ pc = "groupby_apply"
  /\ IF RightCols \cup {"preceding"} \subseteq Cols
     THEN IF \E c \in JoinedCols : MergeName(c, Cols) \in Cols
          THEN Fail("merge", "MergeError")
          ELSE /\ data_py' = merge(data_py, Cols)
               /\ schema' = merge_schema(schema, data_py)
               /\ Done("merge")
               /\ UNCHANGED <<data_py_veh, plot>>
     ELSE Fail("merge", "KeyError")

\* line 57
DropKey ==
  /\ pc = "merge"
  /\ IF "vehicle_id_preceding" \in Cols
     THEN /\ data_py' = DropCols(data_py, {"vehicle_id_preceding"})
          /\ schema' = DropSchema(schema, {"vehicle_id_preceding"})
          /\ Done("drop_key")
          /\ UNCHANGED <<data_py_veh, plot>>
     ELSE Fail("drop_key", "KeyError")

\* line 61: NaN becomes null, the dtypes carry over
FromPandas ==
  /\ pc = "drop_key"
  /\ Done("from_pandas")
  /\ UNCHANGED <<data_py, schema, data_py_veh, plot>>

\* lines 65-72
Rename ==
  /\ pc = "from_pandas"
  /\ IF DOMAIN RenameMap \subseteq Cols
     THEN IF Cardinality(RenamedCols(Cols)) < Cardinality(Cols)
          THEN Fail("rename", "DuplicateError")
          ELSE /\ data_py' = rename(data_py)
               /\ schema' = rename_schema(schema)
               /\ Done("rename")
               /\ UNCHANGED <<data_py_veh, plot>>
     ELSE Fail("rename", "ColumnNotFoundError")

\* a prune that skips the columns it does not find
DropLenient ==
  /\ pc = "rename"
  /\ data_py' = DropCols(data_py, DropList)
  /\ schema' = DropSchema(schema, DropList)
  /\ Done("drop")
  /\ UNCHANGED <<data_py_veh, plot>>

\* lines 79-81
Drop ==
  /\ pc = "rename"
  /\ IF DropList \subseteq Cols
     THEN /\ data_py' = DropCols(data_py, DropList)
          /\ schema' = DropSchema(schema, DropList)
          /\ Done("drop")
          /\ UNCHANGED <<data_py_veh, plot>>
     ELSE Fail("drop", "ColumnNotFoundError")

\* line 92
ToMetric ==
  /\ pc = "drop"
  /\ IF cols_to_convert_to_metric \subseteq Cols
     THEN /\ data_py' = to_metric(data_py)
          /\ schema' = to_metric_schema(schema)
          /\ Done("to_metric")
          /\ UNCHANGED <<data_py_veh, plot>>
     ELSE Fail("to_metric", "ColumnNotFoundError")

\* line 97
ToCategorical ==
  /\ pc = "to_metric"
  /\ IF cols_to_convert_to_categorical \subseteq Cols
     THEN /\ data_py' = to_categorical(data_py, schema)
          /\ schema' = to_categorical_schema(schema)
          /\ Done("to_categorical")
          /\ UNCHANGED <<data_py_veh, plot>>
     ELSE Fail("to_categorical", "ColumnNotFoundError")

\* line 108
Filter ==
  /\ pc = "to_categorical"
  /\ data_py_veh' = filter(data_py)
  /\ Done("filter")
  /\ UNCHANGED <<data_py, schema, plot>>

\* lines 109-116
Plot ==
  /\ pc = "filter"
  /\ plot' = PlotLayers
  /\ Done("plot")
  /\ UNCHANGED <<data_py, schema, data_py_veh>>

Next ==
  \/ ActualTime
  \/ SortValues
  \/ GroupbyApply
  \/ Merge
  \/ DropKey
  \/ FromPandas
  \/ Rename
  \/ Drop
  \/ ToMetric
  \/ ToCategorical
  \/ Filter
  \/ Plot

Spec == Init /\ [][Next]_vars

----------------------------------------------------------------------------
(* Vocabulary of the properties *)

Steps ==
  << "clean_names", "actual_time", "sort_values", "groupby_apply", "merge",
     "drop_key", "from_pandas", "rename", "drop", "to_metric", "to_categorical",
     "filter", "plot" >>

StepNo(step) == CHOOSE i \in DOMAIN Steps : Steps[i] = step

\* the number of the last step that completed
Stage == IF pc = "failed" THEN StepNo(error.step) - 1 ELSE StepNo(pc)

Completed(step) == Stage >= StepNo(step)

Rows == 1..Len(data_py)

In == loaded.rows

\* the rows of the current table that row i names as its preceding vehicle
MatchesOf(i) ==
  { j \in Rows : /\ data_py[j]["frame_id"] = data_py[i]["frame_id"]
                 /\ data_py[j]["vehicle_id"] = data_py[i]["preceding"] }

\* the same on the table as loaded
InMatchesOf(i) ==
  { j \in DOMAIN In : /\ In[j]["frame_id"] = In[i]["frame_id"]
                      /\ In[j]["vehicle_id"] = In[i]["preceding"] }

Max(a, b) == IF a >= b THEN a ELSE b

RECURSIVE SumOver(_, _)
SumOver(f, S) ==
  IF S = {} THEN 0 ELSE LET x == CHOOSE x \in S : TRUE IN f[x] + SumOver(f, S \ {x})

\* y is x feet in metres to two decimals (both in hundredths), off a tie
IsMetric(x, y) == y # Null /\ 2 * (10000 * y - 3048 * x) \in -10000..10000

----------------------------------------------------------------------------
(* C1: in every table from the rename on, a row whose preceding id has a    *)
(* row at the same frame carries that row's v_vel as preceding_v_vel, and a *)
(* row without such a row carries a missing preceding_v_vel.                *)
PrecedingJoin ==
  Completed("rename") =>
    \A i \in Rows :
      IF MatchesOf(i) # {}
      THEN \E j \in MatchesOf(i) : data_py[i]["preceding_v_vel"] = data_py[j]["v_vel"]
      ELSE data_py[i]["preceding_v_vel"] = Null

\* a finished run with a matched row and with a row whose preceding vehicle
\* is in the table at another frame only
PrecedingJoinWitness ==
  /\ pc = "plot"
  /\ \E i \in Rows : MatchesOf(i) # {} /\ data_py[i]["preceding_v_vel"] # Null
  /\ \E i, j \in Rows :
       /\ MatchesOf(i) = {}
       /\ data_py[j]["vehicle_id"] = data_py[i]["preceding"]
       /\ data_py[j]["v_vel"] # data_py[i]["v_vel"]

(* C2: once the time index is assigned, and as long as no row was fanned    *)
(* out, the times of every vehicle are 0.0, 0.1, ... one per row, rising    *)
(* with frame_id.                                                           *)
TimeIndex ==
  (Completed("groupby_apply") /\ Len(data_py) = Len(In)) =>
    \A i \in Rows :
      LET mine == { j \in Rows : data_py[j]["vehicle_id"] = data_py[i]["vehicle_id"] }
      IN /\ { 10 * data_py[j]["time"] : j \in mine }
              = { Scale * k : k \in 0..(Cardinality(mine) - 1) }
         /\ \A j \in mine :
              data_py[i]["frame_id"] < data_py[j]["frame_id"]
                => data_py[i]["time"] < data_py[j]["time"]

\* a vehicle loaded with its later frame first and a gap between its frames
TimeIndexWitness ==
  /\ pc = "groupby_apply"
  /\ Len(In) >= 2
  /\ In[1]["vehicle_id"] = In[2]["vehicle_id"]
  /\ In[1]["frame_id"] > In[2]["frame_id"] + 1
  /\ \E i \in Rows : data_py[i]["time"] = 10

(* C3: the joined table holds every loaded row max(1, m) times, m the       *)
(* number of loaded rows at its frame with its preceding id; the row count  *)
(* stays that sum to the end.                                               *)
JoinMultiplicity ==
  Completed("merge") =>
    /\ Len(data_py)
         = SumOver([i \in DOMAIN In |-> Max(1, Cardinality(InMatchesOf(i)))], DOMAIN In)
    /\ Stage <= StepNo("drop") =>
         \A i \in DOMAIN In :
           Cardinality({ k \in Rows : Restrict(data_py[k], DataCols) = In[i] })
             = Cardinality({ j \in DOMAIN In : In[j] = In[i] })
                 * Max(1, Cardinality(InMatchesOf(i)))

\* a finished run in which a duplicated match fanned a row out
JoinMultiplicityWitness ==
  /\ pc = "plot"
  /\ Len(data_py) > Len(In)

\* the loaded row a row of the current table stems from
StemsFrom(R, I) ==
  /\ R["frame_id"] = I["frame_id"]
  /\ R["vehicle_id"] = IF schema["vehicle_id"] = "int" THEN I["vehicle_id"]
                       ELSE ToString(I["vehicle_id"])

(* C4: after the unit conversion every listed column holds the loaded value *)
(* in metres to two decimals, the joined columns hold the matched row's     *)
(* loaded value converted once, and a missing value is still missing.       *)
UnitConversion ==
  Completed("to_metric") =>
    \A k \in Rows :
      \E i \in DOMAIN In :
        /\ StemsFrom(data_py[k], In[i])
        /\ \A c \in {"local_x", "v_vel", "v_acc"} : IsMetric(In[i][c], data_py[k][c])
        /\ IF InMatchesOf(i) = {}
           THEN \A c \in {"preceding_v_vel", "preceding_v_acc"} : data_py[k][c] = Null
           ELSE \E j \in InMatchesOf(i) :
                  /\ IsMetric(In[j]["v_vel"], data_py[k]["preceding_v_vel"])
                  /\ IsMetric(In[j]["v_acc"], data_py[k]["preceding_v_acc"])

\* a finished run with a converted joined value, a missing one and a
\* negative value
UnitConversionWitness ==
  /\ pc = "plot"
  /\ \E k \in Rows : data_py[k]["preceding_v_vel"] \notin {Null, 0}
  /\ \E k \in Rows : data_py[k]["preceding_v_vel"] = Null
  /\ \E k \in Rows : data_py[k]["v_acc"] < 0

(* C5: from the prune on, none of the ten pruned columns is a column of the *)
(* table or a cell of a row.                                                *)
DroppedStayDropped ==
  Completed("drop") =>
    LET gone == { "total_frames", "global_x", "global_y", "following", "o_zone",
                  "d_zone", "int_id", "section_id", "direction", "movement" }
    IN /\ Cols \cap gone = {}
       /\ \A k \in Rows : (DOMAIN data_py[k]) \cap gone = {}

\* a finished run of a file that had all ten columns
DroppedStayDroppedWitness ==
  /\ pc = "plot"
  /\ {"total_frames", "movement", "global_x"} \subseteq loaded.columns
  /\ Len(data_py) > 0

(* C6: after the categorical cast, a row with a matched preceding vehicle   *)
(* has a preceding_v_class equal to the matched row's v_class.              *)
CategoricalEqual ==
  Completed("to_categorical") =>
    \A i \in Rows :
      MatchesOf(i) # {} =>
        \E j \in MatchesOf(i) : data_py[i]["preceding_v_class"] = data_py[j]["v_class"]

(* C7: every column the plot maps to an axis is a column of the final table *)
PlotColumnsExist ==
  pc = "plot" => \A layer \in plot : layer.x \in Cols /\ layer.y \in Cols

(* C8: a rename or prune that misses one of its columns ends the run there: *)
(* the step fails, the table is left as it was, nothing is plotted, and a   *)
(* failed run takes no further step.                                        *)
FailFast ==
  [][ /\ pc # "failed"
      /\ ( \/ pc = "from_pandas" /\ ~(DOMAIN RenameMap \subseteq Cols)
           \/ pc = "rename" /\ ~(DropList \subseteq Cols) )
           => /\ pc' = "failed"
              /\ error'.kind = "ColumnNotFoundError"
              /\ data_py' = data_py /\ schema' = schema
              /\ plot' = {} /\ data_py_veh' = <<>> ]_vars

\* a run that stopped at the prune
FailFastWitness ==
  /\ pc = "failed"
  /\ error.step = "drop"
  /\ ~(DropList \subseteq Cols)
  /\ plot = {}

(* C9 as stated: the run ends without a local_x_preceding column            *)
LocalXPrecedingDropped ==
  pc = "plot" => "local_x_preceding" \notin Cols

(* C9 amended: from the join to the end local_x_preceding is a column of    *)
(* the table, never renamed, holding the matched row's loaded local_x in    *)
(* feet, or a missing value.                                                *)
LocalXPrecedingKept ==
  Completed("merge") =>
    /\ "local_x_preceding" \in Cols
    /\ "preceding_local_x" \notin Cols
    /\ \A k \in Rows :
         \E i \in DOMAIN In :
           /\ StemsFrom(data_py[k], In[i])
           /\ IF InMatchesOf(i) = {}
              THEN data_py[k]["local_x_preceding"] = Null
              ELSE \E j \in InMatchesOf(i) :
                     data_py[k]["local_x_preceding"] = In[j]["local_x"]

\* a finished run with a row that still carries the feet value
LocalXPrecedingKeptWitness ==
  /\ pc = "plot"
  /\ \E k \in Rows :
       /\ data_py[k]["local_x_preceding"] # Null
       /\ ~IsMetric(data_py[k]["local_x_preceding"], data_py[k]["local_x"])
       /\ \E i \in DOMAIN In : data_py[k]["local_x_preceding"] = In[i]["local_x"]

====
